---- MODULE Spec2Model ----
(***************************************************************************)
(* The configure-linters schematic of repo-linters: the JSON helpers of    *)
(* the utils module (readJsonInTree, updateJsonInTree, sortObjectByKeys,   *)
(* addPackageJsonDeps, the package and config rules) and the rule chain of *)
(* configureLinters, over a virtual file tree.                             *)
(***************************************************************************)
EXTENDS Integers, Sequences, FiniteSets, TLC

VARIABLES
    tree,        \* the Tree: normalized path -> file content
    pc,          \* position of the invocation in the rule chain
    schema,      \* schema.project of the invocation
    resolved,    \* result of determineTargetProjectName
    error,       \* the error the invocation threw, or NoError
    tasks,       \* number of NodePackageInstallTask added to the context
    extCalls,    \* number of invocations of the external schematic
    run,         \* number of the invocation (1 = first, 2 = re-invocation)
    log,         \* names of the rules that completed in this invocation
    written,     \* path -> content written by the rules that completed
    treeStart,   \* the tree when the invocation began
    treeRun1,    \* the tree left by the first invocation when it succeeded
    input,       \* arguments of a direct call of a helper
    output       \* result of that call

vars == <<tree, pc, schema, resolved, error, tasks, extCalls, run, log,
          written, treeStart, treeRun1, input, output>>

pipelineVars == <<tree, pc, schema, resolved, error, tasks, extCalls, run,
                  log, written, treeStart, treeRun1>>

----------------------------------------------------------------------------
(* Bounds of the model. *)

\* largest number of properties of a mapping handed to sortObjectByKeys
MaxKeys == 3
\* largest number of entries of a dependency section in the merge calls
MaxDeps == 2
\* largest number of devDependencies a package.json holds before the run
MaxPre == 2
\* number of invocations of configureLinters on one workspace
MaxRuns == 2

----------------------------------------------------------------------------
(* JavaScript values.  Every value is a record [t, v, e]: t its type tag,  *)
(* v the payload of a primitive, e the own enumerable properties of an     *)
(* object or array in enumeration order, each [k |-> key, v |-> value].    *)

\* Body applied to the value of e, with e evaluated once
Let(e, Body(_)) == CHOOSE r \in {Body(x) : x \in {e}} : TRUE

Val(t, v, e) == [t |-> t, v |-> v, e |-> e]
Undefined == Val("undefined", "", <<>>)
Null == Val("null", "", <<>>)
Str(s) == Val("string", s, <<>>)
Num(s) == Val("number", s, <<>>)
Bool(b) == Val("boolean", IF b THEN "true" ELSE "false", <<>>)
Obj(e) == Val("object", "", e)
Arr(e) == Val("array", "", e)
P(k, v) == [k |-> k, v |-> v]

\* the typeof operator
TypeOf(x) ==
    IF x.t \in {"object", "array", "null"} THEN "object" ELSE x.t

\* ToBoolean
Truthy(x) ==
    /\ x.t \notin {"undefined", "null"}
    /\ ~(x.t = "string" /\ x.v = "")
    /\ ~(x.t = "boolean" /\ x.v = "false")
    /\ ~(x.t = "number" /\ x.v = "0")

\* UTF-16 code units of the strings that occur as property keys
CodeUnits ==
    "dependencies" :> <<100, 101, 112, 101, 110, 100, 101, 110, 99, 105, 101, 115>> @@
    "devDependencies" :> <<100, 101, 118, 68, 101, 112, 101, 110, 100, 101, 110, 99, 105, 101, 115>> @@
    "name" :> <<110, 97, 109, 101>> @@
    "version" :> <<118, 101, 114, 115, 105, 111, 110>> @@
    "projects" :> <<112, 114, 111, 106, 101, 99, 116, 115>> @@
    "root" :> <<114, 111, 111, 116>> @@
    "prefix" :> <<112, 114, 101, 102, 105, 120>> @@
    "semi" :> <<115, 101, 109, 105>> @@
    "extends" :> <<101, 120, 116, 101, 110, 100, 115>> @@
    "plugins" :> <<112, 108, 117, 103, 105, 110, 115>> @@
    "rules" :> <<114, 117, 108, 101, 115>> @@
    "curly" :> <<99, 117, 114, 108, 121>> @@
    "ignorePatterns" :> <<105, 103, 110, 111, 114, 101, 80, 97, 116, 116, 101, 114, 110, 115>> @@
    "overrides" :> <<111, 118, 101, 114, 114, 105, 100, 101, 115>> @@
    "files" :> <<102, 105, 108, 101, 115>> @@
    "type" :> <<116, 121, 112, 101>> @@
    "style" :> <<115, 116, 121, 108, 101>> @@
    "singleQuote" :> <<115, 105, 110, 103, 108, 101, 81, 117, 111, 116, 101>> @@
    "tabWidth" :> <<116, 97, 98, 87, 105, 100, 116, 104>> @@
    "printWidth" :> <<112, 114, 105, 110, 116, 87, 105, 100, 116, 104>> @@
    "trailingComma" :> <<116, 114, 97, 105, 108, 105, 110, 103, 67, 111, 109, 109, 97>> @@
    "arrowParens" :> <<97, 114, 114, 111, 119, 80, 97, 114, 101, 110, 115>> @@
    "endOfLine" :> <<101, 110, 100, 79, 102, 76, 105, 110, 101>> @@
    "attributeGroups" :> <<97, 116, 116, 114, 105, 98, 117, 116, 101, 71, 114, 111, 117, 112, 115>> @@
    "prettier/prettier" :> <<112, 114, 101, 116, 116, 105, 101, 114, 47, 112, 114, 101, 116, 116, 105, 101, 114>> @@
    "@angular-eslint/component-selector" :> <<64, 97, 110, 103, 117, 108, 97, 114, 45, 101, 115, 108, 105, 110, 116, 47, 99, 111, 109, 112, 111, 110, 101, 110, 116, 45, 115, 101, 108, 101, 99, 116, 111, 114>> @@
    "@angular-eslint/directive-selector" :> <<64, 97, 110, 103, 117, 108, 97, 114, 45, 101, 115, 108, 105, 110, 116, 47, 100, 105, 114, 101, 99, 116, 105, 118, 101, 45, 115, 101, 108, 101, 99, 116, 111, 114>> @@
    "at-rule-no-vendor-prefix" :> <<97, 116, 45, 114, 117, 108, 101, 45, 110, 111, 45, 118, 101, 110, 100, 111, 114, 45, 112, 114, 101, 102, 105, 120>> @@
    "color-named" :> <<99, 111, 108, 111, 114, 45, 110, 97, 109, 101, 100>> @@
    "prettier" :> <<112, 114, 101, 116, 116, 105, 101, 114>> @@
    "prettier-plugin-organize-attributes" :> <<112, 114, 101, 116, 116, 105, 101, 114, 45, 112, 108, 117, 103, 105, 110, 45, 111, 114, 103, 97, 110, 105, 122, 101, 45, 97, 116, 116, 114, 105, 98, 117, 116, 101, 115>> @@
    "eslint-plugin-import" :> <<101, 115, 108, 105, 110, 116, 45, 112, 108, 117, 103, 105, 110, 45, 105, 109, 112, 111, 114, 116>> @@
    "eslint-import-resolver-typescript" :> <<101, 115, 108, 105, 110, 116, 45, 105, 109, 112, 111, 114, 116, 45, 114, 101, 115, 111, 108, 118, 101, 114, 45, 116, 121, 112, 101, 115, 99, 114, 105, 112, 116>> @@
    "eslint-plugin-rxjs" :> <<101, 115, 108, 105, 110, 116, 45, 112, 108, 117, 103, 105, 110, 45, 114, 120, 106, 115>> @@
    "eslint-config-prettier" :> <<101, 115, 108, 105, 110, 116, 45, 99, 111, 110, 102, 105, 103, 45, 112, 114, 101, 116, 116, 105, 101, 114>> @@
    "eslint-plugin-prettier" :> <<101, 115, 108, 105, 110, 116, 45, 112, 108, 117, 103, 105, 110, 45, 112, 114, 101, 116, 116, 105, 101, 114>> @@
    "stylelint" :> <<115, 116, 121, 108, 101, 108, 105, 110, 116>> @@
    "stylelint-config-prettier" :> <<115, 116, 121, 108, 101, 108, 105, 110, 116, 45, 99, 111, 110, 102, 105, 103, 45, 112, 114, 101, 116, 116, 105, 101, 114>> @@
    "stylelint-config-standard" :> <<115, 116, 121, 108, 101, 108, 105, 110, 116, 45, 99, 111, 110, 102, 105, 103, 45, 115, 116, 97, 110, 100, 97, 114, 100>> @@
    "stylelint-config-recommended-scss" :> <<115, 116, 121, 108, 101, 108, 105, 110, 116, 45, 99, 111, 110, 102, 105, 103, 45, 114, 101, 99, 111, 109, 109, 101, 110, 100, 101, 100, 45, 115, 99, 115, 115>> @@
    "stylelint-order" :> <<115, 116, 121, 108, 101, 108, 105, 110, 116, 45, 111, 114, 100, 101, 114>> @@
    "stylelint-prettier" :> <<115, 116, 121, 108, 101, 108, 105, 110, 116, 45, 112, 114, 101, 116, 116, 105, 101, 114>> @@
    "stylelint-scss" :> <<115, 116, 121, 108, 101, 108, 105, 110, 116, 45, 115, 99, 115, 115>> @@
    "0" :> <<48>> @@
    "1" :> <<49>> @@
    "2" :> <<50>> @@
    "3" :> <<51>> @@
    "4" :> <<52>> @@
    "5" :> <<53>> @@
    "6" :> <<54>> @@
    "7" :> <<55>> @@
    "8" :> <<56>> @@
    "9" :> <<57>> @@
    "10" :> <<49, 48>> @@
    "a" :> <<97>> @@
    "b" :> <<98>> @@
    "c" :> <<99>> @@
    "zone.js" :> <<122, 111, 110, 101, 46, 106, 115>> @@
    "web" :> <<119, 101, 98>> @@
    "api" :> <<97, 112, 105>>

Range(s) == {s[i] : i \in 1..Len(s)}

\* whether the code units are decimal digits only
AllDigits(u) == \A i \in 1..Len(u) : u[i] >= 48 /\ u[i] <= 57

\* comparison of two strings by code units (the default order of sort())
RECURSIVE UnitsLess(_, _)
UnitsLess(a, b) ==
    IF b = <<>> THEN FALSE
    ELSE IF a = <<>> THEN TRUE
    ELSE IF Head(a) # Head(b) THEN Head(a) < Head(b)
    ELSE UnitsLess(Tail(a), Tail(b))

\* code units of "4294967294", the largest array index (2^32 - 2)
MaxIndexUnits == <<52, 50, 57, 52, 57, 54, 55, 50, 57, 52>>

\* an array index in the sense of the language: a canonical numeric string
\* of value at most 2^32 - 2; such keys enumerate first, in ascending
\* numeric order
IsIndexUnits(u) ==
    /\ Len(u) >= 1
    /\ AllDigits(u)
    /\ (Len(u) > 1 => u[1] # 48)
    /\ \/ Len(u) < Len(MaxIndexUnits)
       \/ Len(u) = Len(MaxIndexUnits) /\ ~UnitsLess(MaxIndexUnits, u)

IsArrayIndex(k) == Let(CodeUnits[k], LAMBDA u : IsIndexUnits(u))

\* numeric order of two array indices: canonical strings of digits compare
\* by length, then by code units
IndexLess(a, b) ==
    \/ Len(CodeUnits[a]) < Len(CodeUnits[b])
    \/ Len(CodeUnits[a]) = Len(CodeUnits[b]) /\ UnitsLess(CodeUnits[a], CodeUnits[b])

StrLess(a, b) == UnitsLess(CodeUnits[a], CodeUnits[b])

HasOwn(o, k) == \E i \in 1..Len(o.e) : o.e[i].k = k

\* o[k]
GetProp(o, k) ==
    IF HasOwn(o, k)
    THEN o.e[CHOOSE i \in 1..Len(o.e) : o.e[i].k = k].v
    ELSE Undefined

\* position at which a new own property k enters the enumeration of e
InsertAt(e, k) ==
    IF IsArrayIndex(k)
    THEN 1 + Cardinality({i \in 1..Len(e) :
                 IsArrayIndex(e[i].k) /\ IndexLess(e[i].k, k)})
    ELSE Len(e) + 1

\* o[k] = v on an object or array
SetProp(o, k, v) ==
    IF HasOwn(o, k)
    THEN [o EXCEPT !.e = [i \in 1..Len(o.e) |->
                 IF o.e[i].k = k THEN P(k, v) ELSE o.e[i]]]
    ELSE Let(InsertAt(o.e, k), LAMBDA at :
         [o EXCEPT !.e = SubSeq(o.e, 1, at - 1) \o <<P(k, v)>>
                           \o SubSeq(o.e, at, Len(o.e))])

\* Object.keys(o)
ObjectKeys(o) == [i \in 1..Len(o.e) |-> o.e[i].k]

\* Object.entries(o)
ObjectEntries(o) == o.e

\* sorted with string x put before the first element that sorts after it
InsertSorted(sorted, x) ==
    Let(Cardinality({i \in 1..Len(sorted) : ~StrLess(x, sorted[i])}), LAMBDA n :
        SubSeq(sorted, 1, n) \o <<x>> \o SubSeq(sorted, n + 1, Len(sorted)))

\* the first n elements of s, sorted
RECURSIVE SortPrefix(_, _)
SortPrefix(s, n) ==
    IF n = 0 THEN <<>>
    ELSE Let(SortPrefix(s, n - 1), LAMBDA sorted : InsertSorted(sorted, s[n]))

\* Array.prototype.sort() without a comparator, on strings
ArraySort(s) == SortPrefix(s, Len(s))

\* the reduce of sortObjectByKeys: { ...result, [key]: obj[key] } per key
RECURSIVE ReduceKeys(_, _, _)
ReduceKeys(keys, obj, result) ==
    IF keys = <<>> THEN result
    ELSE Let(SetProp(Obj(result.e), Head(keys), GetProp(obj, Head(keys))),
             LAMBDA next : ReduceKeys(Tail(keys), obj, next))

\* s in reverse
Reverse(s) == [i \in 1..Len(s) |-> s[Len(s) + 1 - i]]

\* a sortObjectByKeys that calls reverse() where it should call sort()
sortObjectByKeysReversed(obj) ==
    Let(Reverse(ObjectKeys(obj)), LAMBDA keys :
        [ret |-> ReduceKeys(keys, obj, Obj(<<>>)), obj |-> obj])

\* sortObjectByKeys(obj): ret the object returned, obj the argument after
\* the call (the function only reads it)
sortObjectByKeys(obj) ==
    Let(ObjectKeys(obj), LAMBDA unsorted :
    Let(ArraySort(unsorted), LAMBDA keys :
        [ret |-> ReduceKeys(keys, obj, Obj(<<>>)), obj |-> obj]))

\* Object.keys throws a TypeError on undefined and null
KeysThrows(x) == x.t \in {"undefined", "null"}

----------------------------------------------------------------------------
(* Errors.  at names the rule of the chain in which the error was thrown.  *)

Err(kind, path) == [kind |-> kind, path |-> path]
NoError == Err("none", "")
Ok(val) == [err |-> NoError, val |-> val]
Fail(kind, path) == [err |-> Err(kind, path), val |-> Undefined]

----------------------------------------------------------------------------
(* addPackageJsonDeps *)

\* the forEach of addDeps: section[packageToAdd] = version for every entry
RECURSIVE SetEntries(_, _)
SetEntries(section, entries) ==
    IF entries = <<>> THEN section
    ELSE Let(SetProp(section, Head(entries).k, Head(entries).v),
             LAMBDA next : SetEntries(next, Tail(entries)))

\* an addDeps that starts every requested section from an empty mapping
addDepsReplacing(packageJson, options, section) ==
    IF ~Truthy(GetProp(options, section)) THEN Ok(packageJson)
    ELSE Let(SetEntries(Obj(<<>>), ObjectEntries(GetProp(options, section))),
             LAMBDA replaced : Ok(SetProp(packageJson, section, replaced)))

\* the forEach of addDeps on a packageJson that has the section
addDepsEntries(withSection, entries, section) ==
    Let(GetProp(withSection, section), LAMBDA target :
        IF entries = <<>> THEN Ok(withSection)
        ELSE IF target.t \notin {"object", "array"}
        THEN \* a property assignment on null or on a primitive (module
             \* code is strict) throws
             [err |-> Err("TypeError", ""), val |-> withSection]
        ELSE Let(SetEntries(target, entries), LAMBDA merged :
                 Ok(SetProp(withSection, section, merged))))

\* the inner function addDeps(section), on the packageJson it closes over:
\* val is packageJson after the call
addDeps(packageJson, options, section) ==
    IF ~Truthy(GetProp(options, section)) THEN Ok(packageJson)
    ELSE IF packageJson.t = "null"
    THEN \* the in operator on null throws
         [err |-> Err("TypeError", ""), val |-> packageJson]
    ELSE Let(IF HasOwn(packageJson, section) THEN packageJson
             ELSE SetProp(packageJson, section, Obj(<<>>)),
             LAMBDA withSection :
                 addDepsEntries(withSection,
                                ObjectEntries(GetProp(options, section)), section))

addPackageJsonDeps(packageJson, options) ==
    IF TypeOf(packageJson) # "object" THEN Ok(packageJson)
    ELSE Let(addDeps(packageJson, options, "dependencies"), LAMBDA deps :
             IF deps.err # NoError THEN deps
             ELSE addDeps(deps.val, options, "devDependencies"))

----------------------------------------------------------------------------
(* File contents.  A file is [fmt, indent, nl, doc]: fmt "json" for strict *)
(* JSON text, "jsonc" for JSON text with // or block comments, "text" for  *)
(* anything else; doc the value the JSON text denotes; indent and nl the   *)
(* indentation and the trailing newline of the text.                       *)

File(fmt, indent, nl, doc) == [fmt |-> fmt, indent |-> indent, nl |-> nl, doc |-> doc]

\* whether the entry of an array is one of its elements
IsElement(p) == IsArrayIndex(p.k)

\* the value JSON.stringify writes for x and JSON.parse reads back:
\* properties holding undefined and the named properties of an array are
\* not written
RECURSIVE JsonValue(_)
JsonValue(x) ==
    IF x.t \notin {"object", "array"} THEN x
    ELSE Let(SelectSeq(x.e, LAMBDA p :
                 /\ p.v.t # "undefined"
                 /\ (x.t = "array" => IsElement(p))),
             LAMBDA kept :
                 [x EXCEPT !.e = [i \in 1..Len(kept) |->
                                     P(kept[i].k, JsonValue(kept[i].v))]])

\* serializeJson(json): JSON.stringify(json, null, 2) and a newline
serializeJson(json) == Let(JsonValue(json), LAMBDA doc : File("json", 2, TRUE, doc))

\* JSON.stringify(json, null, 4) of the package rules
stringify4(json) == Let(JsonValue(json), LAMBDA doc : File("json", 4, FALSE, doc))

\* stripJsonComments(contents)
stripJsonComments(contents) ==
    IF contents.fmt = "jsonc" THEN [contents EXCEPT !.fmt = "json"] ELSE contents

\* JSON.parse(contents): a SyntaxError unless the text is strict JSON
JSONparse(contents) ==
    IF contents.fmt = "json" THEN Ok(contents.doc) ELSE Fail("SyntaxError", "")

----------------------------------------------------------------------------
(* The Tree.  Paths are kept normalized: a leading "/" is dropped. *)

possibleFiles == <<"/workspace.json", "/angular.json", "/.angular.json">>

NormalizePath(p) ==
    CASE p = "/workspace.json" -> "workspace.json"
      [] p = "/angular.json" -> "angular.json"
      [] p = "/.angular.json" -> ".angular.json"
      [] OTHER -> p

exists(host, path) == NormalizePath(path) \in DOMAIN host
read(host, path) == host[NormalizePath(path)]
\* host.create and host.overwrite
writeFile(host, path, content) ==
    [p \in DOMAIN host \cup {NormalizePath(path)} |->
        IF p = NormalizePath(path) THEN content ELSE host[p]]

\* a readJsonInTree that hands the text to JSON.parse as it is
readJsonInTreeNoStrip(host, path) ==
    IF ~exists(host, path) THEN Fail("NotFound", path)
    ELSE Let(JSONparse(read(host, path)), LAMBDA parsed :
             IF parsed.err # NoError THEN Fail("ParseError", path) ELSE parsed)

readJsonInTree(host, path) ==
    IF ~exists(host, path) THEN Fail("NotFound", path)
    ELSE Let(JSONparse(stripJsonComments(read(host, path))), LAMBDA parsed :
             IF parsed.err # NoError THEN Fail("ParseError", path) ELSE parsed)

----------------------------------------------------------------------------
(* Config builders.  The rule tables are constants of the source; of the   *)
(* linter rules the model keeps the two selector rules that carry the      *)
(* prefix and the prettier rule, of the other tables the leading entries.  *)

IndexKeys == <<"0", "1", "2", "3", "4", "5", "6", "7", "8", "9">>

\* an array literal
ArrOf(items) == Arr([i \in 1..Len(items) |-> P(IndexKeys[i], items[i])])

createProjectESLintConfig(prefix) ==
    Obj(<<
      P("root", Bool(TRUE)),
      P("ignorePatterns", ArrOf(<<Str("projects/**/*")>>)),
      P("overrides", ArrOf(<<
         Obj(<<
           P("files", ArrOf(<<Str("*.ts")>>)),
           P("rules", Obj(<<
              P("prettier/prettier", Str("error")),
              P("@angular-eslint/component-selector", ArrOf(<<Str("error"),
                 Obj(<<P("type", Str("element")), P("prefix", prefix),
                       P("style", Str("kebab-case"))>>)>>)),
              P("@angular-eslint/directive-selector", ArrOf(<<Str("error"),
                 Obj(<<P("type", Str("attribute")), P("prefix", prefix),
                       P("style", Str("camelCase"))>>)>>))
           >>))
         >>),
         Obj(<<
           P("files", ArrOf(<<Str("*.html")>>)),
           P("extends", ArrOf(<<Str("plugin:@angular-eslint/template/recommended")>>)),
           P("rules", Obj(<<>>))
         >>)
      >>))
    >>)

createProjectStylelintConfig ==
    Obj(<<
      P("extends", ArrOf(<<Str("stylelint-config-standard"),
                           Str("stylelint-config-recommended-scss"),
                           Str("stylelint-prettier/recommended")>>)),
      P("plugins", ArrOf(<<Str("stylelint-scss"), Str("stylelint-order"),
                           Str("stylelint-prettier")>>)),
      P("rules", Obj(<<
         P("at-rule-no-vendor-prefix", Bool(TRUE)),
         P("color-named", Str("never")),
         P("prettier/prettier", Bool(TRUE))
      >>))
    >>)

createPrettierConfig ==
    Obj(<<
      P("singleQuote", Bool(TRUE)),
      P("tabWidth", Num("4")),
      P("printWidth", Num("120")),
      P("trailingComma", Str("none")),
      P("arrowParens", Str("avoid")),
      P("endOfLine", Str("auto")),
      P("attributeGroups", ArrOf(<<
         Str("$ANGULAR_ELEMENT_REF"), Str("$ANGULAR_STRUCTURAL_DIRECTIVE"),
         Str("$CLASS"), Str("$ID"), Str("$DEFAULT"), Str("$ANGULAR_ANIMATION"),
         Str("$ANGULAR_ANIMATION_INPUT"), Str("$ANGULAR_INPUT"),
         Str("$ANGULAR_TWO_WAY_BINDING"), Str("$ANGULAR_OUTPUT")>>))
    >>)

----------------------------------------------------------------------------
(* updateJsonInTree.  A callback is [fn, arg]: the three callbacks of the  *)
(* rules ignore the json they are handed; "identity" and "assign" are the  *)
(* callbacks of a direct call that return the json, the second after       *)
(* setting json[arg.k] = arg.v.                                            *)

Callback(fn, arg) == [fn |-> fn, arg |-> arg]

ApplyCallback(callback, json) ==
    CASE callback.fn = "createProjectESLintConfig" ->
             createProjectESLintConfig(callback.arg)
      [] callback.fn = "createProjectStylelintConfig" -> createProjectStylelintConfig
      [] callback.fn = "createPrettierConfig" -> createPrettierConfig
      [] callback.fn = "assign" -> SetProp(json, callback.arg.k, callback.arg.v)
      [] OTHER -> json

\* an updateJsonInTree that hands its callback an empty object every time
updateJsonInTreeFresh(host, path, callback) ==
    IF ~exists(host, path)
    THEN Let(serializeJson(ApplyCallback(callback, Obj(<<>>))), LAMBDA content :
             Ok(writeFile(host, path, content)))
    ELSE Let(readJsonInTree(host, path), LAMBDA json :
             IF json.err # NoError THEN [err |-> json.err, val |-> host]
             ELSE Let(serializeJson(ApplyCallback(callback, Obj(<<>>))),
                      LAMBDA content : Ok(writeFile(host, path, content))))

\* the rule updateJsonInTree(path, callback) applied to host: val is the
\* tree after the rule
updateJsonInTree(host, path, callback) ==
    IF ~exists(host, path)
    THEN Let(serializeJson(ApplyCallback(callback, Obj(<<>>))), LAMBDA content :
             Ok(writeFile(host, path, content)))
    ELSE Let(readJsonInTree(host, path), LAMBDA json :
             IF json.err # NoError THEN [err |-> json.err, val |-> host]
             ELSE Let(serializeJson(ApplyCallback(callback, json.val)),
                      LAMBDA content : Ok(writeFile(host, path, content))))

----------------------------------------------------------------------------
(* The project rules. *)

\* join(normalize(projectRoot), name)
JoinPath(projectRoot, name) ==
    IF projectRoot = "" THEN name ELSE projectRoot \o "/" \o name

\* angularJSON.projects[projectName] of the three config rules: the read
\* of angular.json and the property accesses that throw on a missing value
ProjectIn(angularJSON, projectName) ==
    IF angularJSON.t \in {"undefined", "null"} THEN Fail("TypeError", "")
    ELSE Let(GetProp(angularJSON, "projects"), LAMBDA projects :
         IF projects.t \in {"undefined", "null"} THEN Fail("TypeError", "")
         ELSE Let(GetProp(projects, projectName), LAMBDA p :
              IF p.t \in {"undefined", "null"} THEN Fail("TypeError", "")
              ELSE Ok(p)))

ProjectOf(host, projectName) ==
    Let(readJsonInTree(host, "angular.json"), LAMBDA angularJSON :
        IF angularJSON.err # NoError THEN angularJSON
        ELSE ProjectIn(angularJSON.val, projectName))

\* const { prefix = 'app' } = ...
PrefixOf(projectDescriptor) ==
    IF GetProp(projectDescriptor, "prefix").t = "undefined" THEN Str("app")
    ELSE GetProp(projectDescriptor, "prefix")

updateESLintConfigForProject(host, projectName) ==
    Let(ProjectOf(host, projectName), LAMBDA p :
        IF p.err # NoError THEN [err |-> p.err, val |-> host]
        ELSE updateJsonInTree(host, ".eslintrc.json",
                 Callback("createProjectESLintConfig", PrefixOf(p.val))))

\* the rule of the per-project config files: normalize throws on a root
\* that is no string
ProjectConfigRule(host, projectName, name, fn) ==
    Let(ProjectOf(host, projectName), LAMBDA p :
        IF p.err # NoError THEN [err |-> p.err, val |-> host]
        ELSE IF GetProp(p.val, "root").t # "string"
        THEN [err |-> Err("TypeError", ""), val |-> host]
        ELSE updateJsonInTree(host, JoinPath(GetProp(p.val, "root").v, name),
                              Callback(fn, Undefined)))

addStylelintConfigForProject(host, projectName) ==
    ProjectConfigRule(host, projectName, ".stylelintrc.json",
                      "createProjectStylelintConfig")

addPrettierConfigForProject(host, projectName) ==
    ProjectConfigRule(host, projectName, ".prettierrc.json", "createPrettierConfig")

----------------------------------------------------------------------------
(* The package rules. *)

Deps(entries) == Obj(<<P("devDependencies", Obj(entries))>>)

PrettierPackages ==
    Deps(<<P("prettier", Str("2.4.1")),
           P("prettier-plugin-organize-attributes", Str("^0.0.4"))>>)

ESLintPluginsPackages ==
    Deps(<<P("eslint-plugin-import", Str("^2.24.2")),
           P("eslint-import-resolver-typescript", Str("^2.5.0")),
           P("eslint-plugin-rxjs", Str("^3.3.7")),
           P("eslint-config-prettier", Str("^8.3.0")),
           P("eslint-plugin-prettier", Str("^4.0.0"))>>)

StylelintPackages ==
    Deps(<<P("stylelint", Str("^13.13.1")),
           P("stylelint-config-prettier", Str("^8.0.2")),
           P("stylelint-config-standard", Str("^22.0.0")),
           P("stylelint-config-recommended-scss", Str("4.3.0")),
           P("stylelint-order", Str("^4.1.0")),
           P("stylelint-prettier", Str("^1.2.0")),
           P("stylelint-scss", Str("^3.21.0"))>>)

\* json.devDependencies = sortObjectByKeys(json.devDependencies) and the
\* host.overwrite of the package rules, on the merged json
SortAndWrite(host, json) ==
    Let(GetProp(json, "devDependencies"), LAMBDA devDependencies :
        IF KeysThrows(devDependencies)
        THEN [err |-> Err("TypeError", ""), val |-> host]
        ELSE Let(sortObjectByKeys(devDependencies).ret, LAMBDA sorted :
             Let(stringify4(SetProp(json, "devDependencies", sorted)),
                 LAMBDA content : Ok(writeFile(host, "package.json", content)))))

\* the body the three package rules share: the package.json check, the
\* read and JSON.parse, the merge, the sort of devDependencies, the write
PackageRule(host, options) ==
    IF ~exists(host, "package.json")
    THEN [err |-> Err("NotFound", "package.json"), val |-> host]
    ELSE Let(JSONparse(read(host, "package.json")), LAMBDA parsed :
         IF parsed.err # NoError THEN [err |-> parsed.err, val |-> host]
         ELSE Let(addPackageJsonDeps(parsed.val, options), LAMBDA merged :
              IF merged.err # NoError THEN [err |-> merged.err, val |-> host]
              ELSE SortAndWrite(host, merged.val)))

addPrettierPackages(host) == PackageRule(host, PrettierPackages)
addESLintPluginsPackages(host) == PackageRule(host, ESLintPluginsPackages)
addStylelintPackages(host) == PackageRule(host, StylelintPackages)

----------------------------------------------------------------------------
(* Project resolution. *)

\* possibleFiles.filter(path => host.exists(path))[0]
getWorkspacePath(host) ==
    Let(SelectSeq(possibleFiles, LAMBDA path : exists(host, path)), LAMBDA found :
        IF found = <<>> THEN "undefined" ELSE found[1])

\* Object.keys(workspaceJson.projects), or the TypeError of a missing value
ProjectNames(workspaceJson) ==
    IF KeysThrows(workspaceJson) \/ KeysThrows(GetProp(workspaceJson, "projects"))
    THEN Fail("TypeError", "")
    ELSE Ok(ObjectKeys(GetProp(workspaceJson, "projects")))

\* a determineTargetProjectName that takes the first of several projects
determineTargetProjectNameFirst(host, maybeProject) ==
    IF Truthy(maybeProject) THEN Ok(maybeProject)
    ELSE Let(readJsonInTree(host, getWorkspacePath(host)), LAMBDA workspaceJson :
         IF workspaceJson.err # NoError THEN workspaceJson
         ELSE Let(ProjectNames(workspaceJson.val), LAMBDA projects :
              IF projects.err # NoError THEN projects
              ELSE IF Len(projects.val) >= 1 THEN Ok(Str(projects.val[1]))
              ELSE Ok(Null)))

\* determineTargetProjectName(tree, maybeProject): val is the name or null
determineTargetProjectName(host, maybeProject) ==
    IF Truthy(maybeProject) THEN Ok(maybeProject)
    ELSE Let(readJsonInTree(host, getWorkspacePath(host)), LAMBDA workspaceJson :
         IF workspaceJson.err # NoError THEN workspaceJson
         ELSE Let(ProjectNames(workspaceJson.val), LAMBDA projects :
              IF projects.err # NoError THEN projects
              ELSE IF Len(projects.val) = 1 THEN Ok(Str(projects.val[1]))
              ELSE Ok(Null)))

\* a configureLinters without the check of the resolved name
configureLintersUnchecked(host, schemaProject) ==
    determineTargetProjectName(host, schemaProject)

\* the body of configureLinters before the chain: val is the project name
\* the chain is built with
configureLinters(host, schemaProject) ==
    Let(determineTargetProjectName(host, schemaProject), LAMBDA name :
        IF name.err # NoError THEN name
        ELSE IF ~Truthy(name.val) THEN Fail("AmbiguousProject", "")
        ELSE name)

----------------------------------------------------------------------------
(* The rule chain of configureLinters. *)

Chain == <<"externalSchematic", "addPrettierPackages",
           "addPrettierConfigForProject", "addESLintPluginsPackages",
           "updateESLintConfigForProject", "addStylelintPackages",
           "addStylelintConfigForProject", "addPackageInstallTask">>

IndexOf(rule) == CHOOSE i \in 1..Len(Chain) : Chain[i] = rule

\* the rule chain() runs after rule
After(rule) ==
    IF IndexOf(rule) = Len(Chain) THEN "done" ELSE Chain[IndexOf(rule) + 1]

EmptyTree == [p \in {} |-> Undefined]

\* the files of after that differ from before
Changed(before, after) ==
    {p \in DOMAIN after : p \notin DOMAIN before \/ after[p] # before[p]}

\* chain(): a rule that returned hands its tree to the next rule
Completes(rule, after) ==
    /\ tree' = after
    /\ pc' = After(rule)
    /\ log' = Append(log, rule)
    /\ \E changed \in {Changed(tree, after)} :
         written' = [p \in DOMAIN written \cup changed |->
                        IF p \in changed THEN after[p] ELSE written[p]]
    /\ error' = error

\* chain(): a rule that threw ends the invocation
Throws(rule, err) ==
    /\ pc' = "failed"
    /\ error' = [err |-> err, at |-> rule]
    /\ UNCHANGED <<tree, log, written>>

\* a chain that drops the tree of the invocation when a rule throws
RuleStepRollback(rule, result) ==
    /\ pc = rule
    /\ \E r \in {result} :
         IF r.err = NoError
         THEN Completes(rule, r.val)
         ELSE /\ pc' = "failed"
              /\ error' = [err |-> r.err, at |-> rule]
              /\ tree' = treeStart
              /\ UNCHANGED <<log, written>>
    /\ UNCHANGED <<schema, resolved, tasks, extCalls, run, treeStart,
                   treeRun1, input, output>>

\* one rule of the chain, run on the tree the previous rule left
RuleStep(rule, result) ==
    /\ pc = rule
    /\ \E r \in {result} :
         IF r.err = NoError
         THEN Completes(rule, r.val)
         ELSE Throws(rule, r.err)
    /\ UNCHANGED <<schema, resolved, tasks, extCalls, run, treeStart,
                   treeRun1, input, output>>

\* the values of schema.project
Projects == {Undefined, Str(""), Str("web"), Str("api")}

\* an invocation of the schematic: the rule factory of configureLinters
Invoke ==
    /\ pc = "idle" \/ (pc = "done" /\ run < MaxRuns)
    /\ \E schemaProject \in Projects :
       \E name \in {configureLinters(tree, schemaProject)} :
         /\ schema' = schemaProject
         /\ resolved' = determineTargetProjectName(tree, schemaProject)
         /\ run' = run + 1
         /\ treeStart' = tree
         /\ log' = <<>>
         /\ written' = EmptyTree
         /\ IF name.err # NoError
            THEN /\ pc' = "failed"
                 /\ error' = [err |-> name.err, at |-> "configureLinters"]
            ELSE /\ pc' = Chain[1]
                 /\ error' = [err |-> NoError, at |-> ""]
         /\ tasks' = 0
         /\ extCalls' = 0
    /\ UNCHANGED <<tree, treeRun1, input, output>>

\* the project config of the external schematic
ExternalESLintConfig ==
    Obj(<<P("extends", Str("../../.eslintrc.json")),
          P("ignorePatterns", ArrOf(<<Str("!**/*")>>))>>)

\* add-eslint-to-project of @angular-eslint/schematics, a collaborator: it
\* throws, leaves the tree as it is, or creates the lint config of the
\* project where there is none
externalSchematic(host, name, outcome) ==
    IF outcome = "throws" THEN [err |-> Err("External", ""), val |-> host]
    ELSE IF outcome = "keeps" THEN Ok(host)
    ELSE Let(ProjectOf(host, name), LAMBDA p :
         IF p.err # NoError \/ GetProp(p.val, "root").t # "string" THEN Ok(host)
         ELSE Let(JoinPath(GetProp(p.val, "root").v, ".eslintrc.json"), LAMBDA path :
              IF exists(host, path) THEN Ok(host)
              ELSE Ok(writeFile(host, path, serializeJson(ExternalESLintConfig)))))

ExternalSchematic ==
    /\ pc = "externalSchematic"
    /\ \E outcome \in {"throws", "creates", "keeps"} :
       \E result \in {externalSchematic(tree, resolved.val.v, outcome)} :
         IF result.err = NoError
         THEN Completes("externalSchematic", result.val)
         ELSE Throws("externalSchematic", result.err)
    /\ extCalls' = extCalls + 1
    /\ UNCHANGED <<schema, resolved, tasks, run, treeStart, treeRun1,
                   input, output>>

AddPrettierPackages ==
    RuleStep("addPrettierPackages", addPrettierPackages(tree))

AddPrettierConfigForProject ==
    RuleStep("addPrettierConfigForProject",
             addPrettierConfigForProject(tree, resolved.val.v))

AddESLintPluginsPackages ==
    RuleStep("addESLintPluginsPackages", addESLintPluginsPackages(tree))

UpdateESLintConfigForProject ==
    RuleStep("updateESLintConfigForProject",
             updateESLintConfigForProject(tree, resolved.val.v))

AddStylelintPackages ==
    RuleStep("addStylelintPackages", addStylelintPackages(tree))

AddStylelintConfigForProject ==
    RuleStep("addStylelintConfigForProject",
             addStylelintConfigForProject(tree, resolved.val.v))

\* context.addTask(new NodePackageInstallTask())
AddPackageInstallTask ==
    /\ pc = "addPackageInstallTask"
    /\ tasks' = tasks + 1
    /\ Completes("addPackageInstallTask", tree)
    /\ treeRun1' = IF run = 1 THEN [done |-> TRUE, tree |-> tree, project |-> schema]
                   ELSE treeRun1
    /\ UNCHANGED <<schema, resolved, extCalls, run, treeStart, input, output>>

----------------------------------------------------------------------------
(* Workspaces the schematic is invoked on. *)

\* the sequences of at most n distinct elements of S
DistinctSeqs(S, n) ==
    {s \in UNION {[1..k -> S] : k \in 0..n} :
        \A i, j \in 1..Len(s) : i # j => s[i] # s[j]}

\* the object a JSON text denotes that lists keys in order, each with value
ObjFromKeys(keys, value) ==
    SetEntries(Obj(<<>>), [i \in 1..Len(keys) |-> P(keys[i], value[keys[i]])])

Tree1(path, content) == [p \in {path} |-> content]
JsonFile(doc) == File("json", 2, TRUE, doc)

PrePool == {"10", "9", "prettier", "zone.js"}

PreSections ==
    {ObjFromKeys(s, [k \in PrePool |-> Str("1.0.0")]) : s \in DistinctSeqs(PrePool, MaxPre)}

PackageBase == <<P("name", Str("demo")),
                 P("dependencies", Obj(<<P("zone.js", Str("~0.11.4"))>>))>>

PackageDocs ==
    {Obj(PackageBase)}
    \cup {Obj(PackageBase \o <<P("devDependencies", s)>>) : s \in PreSections}
    \cup {Null, Str("demo"), ArrOf(<<>>)}

PackageLayouts ==
    {EmptyTree}
    \cup {Tree1("package.json", JsonFile(d)) : d \in PackageDocs}
    \cup {Tree1("package.json", File("jsonc", 2, TRUE, Obj(PackageBase))),
          Tree1("package.json", File("text", 0, FALSE, Undefined))}

ProjectWeb == Obj(<<P("root", Str("apps/web"))>>)
ProjectWebRoot == Obj(<<P("root", Str("")), P("prefix", Str("w"))>>)
ProjectApi == Obj(<<P("root", Str("apps/api")), P("prefix", Str("api"))>>)

Workspace(projects) == Obj(<<P("version", Num("1")), P("projects", Obj(projects))>>)
OneProject == Workspace(<<P("web", ProjectWeb)>>)
OneRootProject == Workspace(<<P("web", ProjectWebRoot)>>)
TwoProjects == Workspace(<<P("web", ProjectWeb), P("api", ProjectApi)>>)
NoProjects == Workspace(<<>>)

WorkspaceLayouts ==
    {EmptyTree,
     Tree1("angular.json", JsonFile(OneProject)),
     Tree1("angular.json", JsonFile(OneRootProject)),
     Tree1("angular.json", JsonFile(TwoProjects)),
     Tree1("angular.json", JsonFile(NoProjects)),
     Tree1("angular.json", File("jsonc", 2, TRUE, OneProject)),
     Tree1("angular.json", File("text", 0, FALSE, Undefined)),
     Tree1("workspace.json", JsonFile(OneProject)),
     Tree1(".angular.json", JsonFile(OneProject)),
     Tree1("workspace.json", JsonFile(OneProject))
         @@ Tree1("angular.json", JsonFile(OneRootProject)),
     Tree1("workspace.json", JsonFile(TwoProjects))
         @@ Tree1("angular.json", JsonFile(OneProject)),
     Tree1("angular.json", JsonFile(OneProject))
         @@ Tree1(".angular.json", JsonFile(TwoProjects))}

\* a config document with top-level keys of its own
OwnConfig == Obj(<<P("semi", Bool(FALSE)), P("rules", Obj(<<P("curly", Str("off"))>>))>>)

ConfigLayouts ==
    {EmptyTree,
     Tree1(".eslintrc.json", JsonFile(OwnConfig))
         @@ Tree1("apps/web/.prettierrc.json", File("jsonc", 4, FALSE, OwnConfig))
         @@ Tree1("apps/web/.stylelintrc.json", JsonFile(OwnConfig))
         @@ Tree1(".prettierrc.json", JsonFile(OwnConfig))
         @@ Tree1(".stylelintrc.json", File("jsonc", 2, TRUE, OwnConfig)),
     Tree1("apps/web/.stylelintrc.json", File("text", 0, FALSE, Undefined))
         @@ Tree1(".stylelintrc.json", File("text", 0, FALSE, Undefined))}

Workspaces ==
    {p @@ w @@ c : p \in PackageLayouts, w \in WorkspaceLayouts, c \in ConfigLayouts}

NotCalled == [called |-> FALSE]

\* no invocation yet
Idle ==
    /\ pc = "idle"
    /\ schema = Undefined
    /\ resolved = Ok(Undefined)
    /\ error = [err |-> NoError, at |-> ""]
    /\ tasks = 0
    /\ extCalls = 0
    /\ run = 0
    /\ log = <<>>
    /\ written = EmptyTree
    /\ treeStart = tree
    /\ treeRun1 = [done |-> FALSE, tree |-> EmptyTree, project |-> Undefined]

Init ==
    /\ tree \in Workspaces
    /\ Idle
    /\ input = <<>>
    /\ output = NotCalled

Next ==
    \/ Invoke
    \/ ExternalSchematic
    \/ AddPrettierPackages
    \/ AddPrettierConfigForProject
    \/ AddESLintPluginsPackages
    \/ UpdateESLintConfigForProject
    \/ AddStylelintPackages
    \/ AddStylelintConfigForProject
    \/ AddPackageInstallTask

Spec == Init /\ [][Next]_vars

----------------------------------------------------------------------------
(* Direct calls of sortObjectByKeys. *)

SortKeyPool == {"10", "9", "a", "b"}

SortInputs ==
    {ObjFromKeys(s, v) : s \in DistinctSeqs(SortKeyPool, MaxKeys),
                         v \in [SortKeyPool -> {Str("x"), Str("y")}]}

InitSort ==
    /\ tree = EmptyTree
    /\ Idle
    /\ input \in {<<m>> : m \in SortInputs}
    /\ output = NotCalled

CallSortObjectByKeys ==
    /\ ~output.called
    /\ output' = [called |-> TRUE, ret |-> sortObjectByKeys(input[1]).ret,
                  obj |-> sortObjectByKeys(input[1]).obj]
    /\ UNCHANGED <<pipelineVars, input>>

NextSort == CallSortObjectByKeys

SpecSort == InitSort /\ [][NextSort]_vars

----------------------------------------------------------------------------
(* Direct calls of addPackageJsonDeps. *)

MergePool == {"9", "a", "b"}

MergeSections(version) ==
    {ObjFromKeys(s, [k \in MergePool |-> Str(version)]) : s \in DistinctSeqs(MergePool, MaxDeps)}

\* an object with the sections given, Undefined standing for a missing one
WithSections(base, dependencies, devDependencies) ==
    Obj(base
        \o (IF dependencies = Undefined THEN <<>>
            ELSE <<P("dependencies", dependencies)>>)
        \o (IF devDependencies = Undefined THEN <<>>
            ELSE <<P("devDependencies", devDependencies)>>))

Manifests ==
    {WithSections(<<P("name", Str("demo"))>>, d, dd) :
        d \in MergeSections("1.0.0") \cup {Undefined},
        dd \in MergeSections("1.0.0") \cup {Undefined}}
    \cup {Null, Str("demo"), Num("1"), Bool(TRUE), ArrOf(<<>>), ArrOf(<<Str("a")>>)}

Requests ==
    {WithSections(<<>>, d, dd) :
        d \in MergeSections("2.0.0") \cup {Undefined},
        dd \in MergeSections("2.0.0") \cup {Undefined}}

InitMerge ==
    /\ tree = EmptyTree
    /\ Idle
    /\ input \in {<<m, r>> : m \in Manifests, r \in Requests}
    /\ output = NotCalled

CallAddPackageJsonDeps ==
    /\ ~output.called
    /\ output' = [called |-> TRUE,
                  err |-> addPackageJsonDeps(input[1], input[2]).err,
                  ret |-> addPackageJsonDeps(input[1], input[2]).val]
    /\ UNCHANGED <<pipelineVars, input>>

NextMerge == CallAddPackageJsonDeps

SpecMerge == InitMerge /\ [][NextMerge]_vars

----------------------------------------------------------------------------
(* Properties of addPackageJsonDeps and sortObjectByKeys. *)

Sections == {"dependencies", "devDependencies"}
KeySet(o) == Range(ObjectKeys(o))

\* whether the keys of o enumerate in ascending order of code units
KeysAscending(o) ==
    \A i, j \in 1..Len(o.e) : i < j => StrLess(o.e[i].k, o.e[j].k)

\* whether section s of the result holds the request over what m had
SectionMerged(m, r, result, s) ==
    /\ HasOwn(result, s)
    /\ KeySet(GetProp(result, s)) = KeySet(GetProp(r, s)) \cup KeySet(GetProp(m, s))
    /\ \A n \in KeySet(GetProp(r, s)) :
           GetProp(GetProp(result, s), n) = GetProp(GetProp(r, s), n)
    /\ \A n \in KeySet(GetProp(m, s)) \ KeySet(GetProp(r, s)) :
           GetProp(GetProp(result, s), n) = GetProp(GetProp(m, s), n)

\* whether key k is in result exactly as it is in m
KeyKept(m, result, k) ==
    /\ HasOwn(result, k) = HasOwn(m, k)
    /\ GetProp(result, k) = GetProp(m, k)

\* C1: addPackageJsonDeps on an object-shaped manifest m and a request r
\* returns m with, for each section r holds, every name of the request at
\* the requested version and every other name of m's section at its prior
\* version (the section created empty first if m had none); a section r
\* does not hold and every other top-level key of m are as they were.
C1_MergeAddsAndKeeps ==
    (output.called /\ input[1].t = "object") =>
        /\ output.err = NoError
        /\ \A s \in Sections :
               IF HasOwn(input[2], s)
               THEN SectionMerged(input[1], input[2], output.ret, s)
               ELSE KeyKept(input[1], output.ret, s)
        /\ \A k \in (KeySet(input[1]) \cup KeySet(output.ret)) \ Sections :
               KeyKept(input[1], output.ret, k)

\* a merge that creates the dependencies section and overwrites and keeps
\* entries of devDependencies
C1_Witness ==
    /\ output.called
    /\ input[1].t = "object"
    /\ HasOwn(input[2], "dependencies")
    /\ ~HasOwn(input[1], "dependencies")
    /\ HasOwn(output.ret, "dependencies")
    /\ \E n \in KeySet(GetProp(input[1], "devDependencies")) :
           /\ n \in KeySet(GetProp(input[2], "devDependencies"))
           /\ GetProp(GetProp(output.ret, "devDependencies"), n) = Str("2.0.0")
    /\ \E n \in KeySet(GetProp(input[1], "devDependencies")) :
           /\ n \notin KeySet(GetProp(input[2], "devDependencies"))
           /\ GetProp(GetProp(output.ret, "devDependencies"), n) = Str("1.0.0")

\* C8: sortObjectByKeys returns a mapping with the keys and values of its
\* argument, the keys enumerating in lexicographic order; it leaves the
\* argument as it was, maps the empty mapping to the empty mapping, and
\* applied to its result returns the result again.
C8_SortObjectByKeys ==
    output.called =>
        /\ KeySet(output.ret) = KeySet(input[1])
        /\ Len(output.ret.e) = Len(input[1].e)
        /\ \A k \in KeySet(input[1]) : GetProp(output.ret, k) = GetProp(input[1], k)
        /\ KeysAscending(output.ret)
        /\ output.obj = input[1]
        /\ (input[1] = Obj(<<>>) => output.ret = Obj(<<>>))
        /\ sortObjectByKeys(output.ret).ret = output.ret

\* C11: addPackageJsonDeps on a manifest that is not object-shaped (a
\* string, a number, a boolean, null or an array) raises no error and
\* returns the manifest as it was given, no section added, whatever the
\* request.
C11_NonObjectManifestReturned ==
    (output.called /\ input[1].t # "object") =>
        /\ output.err = NoError
        /\ output.ret = input[1]
        /\ \A s \in Sections : ~HasOwn(output.ret, s)

----------------------------------------------------------------------------
(* Direct calls of updateJsonInTree. *)

UpdatePaths == {".eslintrc.json", "apps/web/.prettierrc.json",
                "apps/web/.stylelintrc.json"}

Builders == {Callback("createProjectESLintConfig", Str("app")),
             Callback("createProjectStylelintConfig", Undefined),
             Callback("createPrettierConfig", Undefined)}

UpdateCallbacks ==
    Builders \cup {Callback("identity", Undefined),
                   Callback("assign", P("semi", Bool(TRUE)))}

UpdateFiles == {JsonFile(OwnConfig), File("jsonc", 4, FALSE, OwnConfig),
                JsonFile(Obj(<<>>)), File("text", 0, FALSE, Undefined)}

\* the trees that hold some of the paths of S, each with one of the files
TreesOver(S, files) == UNION {[D -> files] : D \in SUBSET S}

InitUpdate ==
    /\ tree \in TreesOver(UpdatePaths, UpdateFiles)
    /\ Idle
    /\ input \in {<<path, callback>> : path \in UpdatePaths, callback \in UpdateCallbacks}
    /\ output = NotCalled

CallUpdateJsonInTree ==
    /\ ~output.called
    /\ \E result \in {updateJsonInTree(tree, input[1], input[2])} :
         /\ tree' = result.val
         /\ output' = [called |-> TRUE, err |-> result.err]
    /\ UNCHANGED <<pc, schema, resolved, error, tasks, extCalls, run, log,
                   written, treeStart, treeRun1, input>>

NextUpdate == CallUpdateJsonInTree

SpecUpdate == InitUpdate /\ [][NextUpdate]_vars

----------------------------------------------------------------------------
(* The contracts the properties are stated against. *)

\* the Workspace Descriptor: the first existing of the three candidates
DescriptorFile(t) ==
    IF "workspace.json" \in DOMAIN t THEN "workspace.json"
    ELSE IF "angular.json" \in DOMAIN t THEN "angular.json"
    ELSE IF ".angular.json" \in DOMAIN t THEN ".angular.json"
    ELSE "undefined"

\* the projects mapping of the Workspace Descriptor, Undefined without one
DescriptorProjects(t) ==
    IF DescriptorFile(t) = "undefined" \/ t[DescriptorFile(t)].fmt = "text"
    THEN Undefined
    ELSE GetProp(t[DescriptorFile(t)].doc, "projects")

ProjectCount(t) ==
    IF DescriptorProjects(t).t = "object" THEN Len(DescriptorProjects(t).e) ELSE -1

\* whether the caller named a project
Named(p) == p.t = "string" /\ p.v # ""

\* the outcome of a Document Store read of path: NotFound if and only if
\* the path does not exist, ParseError with the path if and only if the
\* text is no JSON once comments are stripped
StoreRead(t, path) ==
    IF path \notin DOMAIN t THEN Err("NotFound", path)
    ELSE IF t[path].fmt = "text" THEN Err("ParseError", path)
    ELSE NoError

\* the outcome of the read of package.json by a package rule: the rule's
\* own NotFound, the SyntaxError of JSON.parse on any text that is not
\* strict JSON
StrictRead(t) ==
    IF "package.json" \notin DOMAIN t THEN Err("NotFound", "package.json")
    ELSE IF t["package.json"].fmt # "json" THEN Err("SyntaxError", "")
    ELSE NoError

ReadErrors == {"NotFound", "ParseError", "SyntaxError"}
PackageRules == {"addPrettierPackages", "addESLintPluginsPackages",
                 "addStylelintPackages"}
ConfigRules == {"addPrettierConfigForProject", "updateESLintConfigForProject",
                "addStylelintConfigForProject"}

\* the root of the resolved project in angular.json, "" when it has none
RootIn(t) ==
    IF StoreRead(t, "angular.json") # NoError THEN ""
    ELSE GetProp(GetProp(GetProp(t["angular.json"].doc, "projects"),
                         resolved.val.v), "root").v

\* the config document a config rule writes
ConfigPath(t, rule) ==
    CASE rule = "addPrettierConfigForProject" -> JoinPath(RootIn(t), ".prettierrc.json")
      [] rule = "addStylelintConfigForProject" -> JoinPath(RootIn(t), ".stylelintrc.json")
      [] OTHER -> ".eslintrc.json"

\* the outcome of the reads of a config rule: angular.json, then the
\* config document when it exists
ConfigRead(t, rule) ==
    IF StoreRead(t, "angular.json") # NoError THEN StoreRead(t, "angular.json")
    ELSE IF ConfigPath(t, rule) \in DOMAIN t THEN StoreRead(t, ConfigPath(t, rule))
    ELSE NoError

\* the devDependencies of the package.json of t, an empty mapping if none
DevDependencies(t) ==
    IF HasOwn(t["package.json"].doc, "devDependencies")
    THEN GetProp(t["package.json"].doc, "devDependencies")
    ELSE Obj(<<>>)

Requested ==
    PrettierPackages.e[1].v.e \o ESLintPluginsPackages.e[1].v.e
        \o StylelintPackages.e[1].v.e
RequestedNames == {Requested[i].k : i \in 1..Len(Requested)}

\* the prefix of the two selector rules of a linter config
SelectorPrefixes(config) ==
    {GetProp(GetProp(GetProp(GetProp(GetProp(config, "overrides"), "0"), "rules"),
                     rule), "1").e[2].v :
        rule \in {"@angular-eslint/component-selector",
                  "@angular-eslint/directive-selector"}}

\* the prefix the Workspace Descriptor gives the resolved project
DescriptorPrefix(t) ==
    IF HasOwn(GetProp(DescriptorProjects(t), resolved.val.v), "prefix")
    THEN GetProp(GetProp(DescriptorProjects(t), resolved.val.v), "prefix")
    ELSE Str("app")

----------------------------------------------------------------------------
(* Properties of the invocation. *)

\* C2: after a successful run on a workspace whose package.json is an
\* object, devDependencies holds every requested package at the requested
\* version, every other entry it had at its original version, no other
\* name, and its keys in lexicographic order; the keys are in
\* lexicographic order after each package rule as well.
C2_DevDependenciesMergedAndSorted ==
    (/\ "package.json" \in DOMAIN treeStart
     /\ treeStart["package.json"].fmt = "json"
     /\ treeStart["package.json"].doc.t = "object") =>
        /\ pc = "done" =>
             /\ \A i \in 1..Len(Requested) :
                    GetProp(DevDependencies(tree), Requested[i].k) = Requested[i].v
             /\ \A n \in KeySet(DevDependencies(treeStart)) \ RequestedNames :
                    GetProp(DevDependencies(tree), n)
                        = GetProp(DevDependencies(treeStart), n)
             /\ KeySet(DevDependencies(tree))
                    = RequestedNames \cup KeySet(DevDependencies(treeStart))
             /\ KeysAscending(DevDependencies(tree))
        /\ (log # <<>> /\ log[Len(log)] \in PackageRules) =>
               KeysAscending(DevDependencies(tree))

\* C3: an invocation without a project name on a workspace whose
\* descriptor lists more than one project ends with the AmbiguousProject
\* error before any rule runs: the tree is as it was, the external
\* schematic was not invoked and no install task was added.
C3_AmbiguousProjectAborts ==
    (run >= 1 /\ ~Named(schema) /\ ProjectCount(treeStart) > 1) =>
        /\ pc = "failed"
        /\ error.err.kind = "AmbiguousProject"
        /\ error.at = "configureLinters"
        /\ tree = treeStart
        /\ log = <<>>
        /\ written = EmptyTree
        /\ extCalls = 0
        /\ tasks = 0

C3_Witness ==
    /\ run >= 1
    /\ ~Named(schema)
    /\ ProjectCount(treeStart) = 2
    /\ pc = "failed"
    /\ "package.json" \in DOMAIN tree

\* C4: determineTargetProjectName returns the name the caller supplied;
\* without one it returns the only project of the descriptor's projects
\* mapping when that has exactly one entry, and no selection for every
\* other number of entries.
C4_TargetProjectResolution ==
    run >= 1 =>
        /\ Named(schema) => resolved = Ok(schema)
        /\ (~Named(schema) /\ ProjectCount(treeStart) = 1) =>
               resolved = Ok(Str(DescriptorProjects(treeStart).e[1].k))
        /\ (~Named(schema) /\ (ProjectCount(treeStart) = 0 \/ ProjectCount(treeStart) >= 2)) =>
               resolved = Ok(Null)

C4_Witness ==
    /\ run >= 1
    /\ ~Named(schema)
    /\ ProjectCount(treeStart) = 1
    /\ DescriptorFile(treeStart) = ".angular.json"
    /\ resolved.val = Str("web")
    /\ pc = "externalSchematic"

\* C5: the rules run in the order of the chain, each on the tree the rule
\* before it left; a rule that throws ends the invocation with no later
\* rule run; the install task is added only after the seven rules before
\* it completed; and every file a completed rule wrote keeps the content
\* written, every other file the content it had, when a later rule throws.
C5_StrictOrderFailFastNoRollback ==
    /\ Len(log) <= Len(Chain)
    /\ log = SubSeq(Chain, 1, Len(log))
    /\ pc \in Range(Chain) => pc = Chain[Len(log) + 1]
    /\ pc = "done" => log = Chain
    /\ (pc = "failed" /\ error.at = "configureLinters") => log = <<>>
    /\ (pc = "failed" /\ error.at # "configureLinters") =>
           /\ error.at \in Range(Chain)
           /\ log = SubSeq(Chain, 1, IndexOf(error.at) - 1)
    /\ tasks = (IF log = Chain THEN 1 ELSE 0)
    /\ \A p \in DOMAIN written : p \in DOMAIN tree /\ tree[p] = written[p]
    /\ \A p \in DOMAIN tree \ DOMAIN written :
           p \in DOMAIN treeStart /\ tree[p] = treeStart[p]
    /\ \A p \in DOMAIN treeStart : p \in DOMAIN tree

\* the last config rule throws after the six rules before it wrote
C5_Witness ==
    /\ pc = "failed"
    /\ error.at = "addStylelintConfigForProject"
    /\ {"package.json", ".eslintrc.json", "apps/web/.prettierrc.json"}
           \subseteq DOMAIN written
    /\ tree["package.json"] # treeStart["package.json"]
    /\ tasks = 0

\* C6: the linter config written by updateESLintConfigForProject carries,
\* in both selector rules, the prefix the Workspace Descriptor (the first
\* existing of /workspace.json, /angular.json, /.angular.json) gives the
\* resolved project, "app" when it gives none; and with a descriptor of
\* the single project "web" without prefix and no project name given, the
\* invocation does not fail for want of a descriptor.
C6_PrefixFromWorkspaceDescriptor ==
    /\ (run >= 1 /\ DescriptorFile(treeStart) # "undefined") =>
           DescriptorFile(treeStart) = NormalizePath(getWorkspacePath(treeStart))
    /\ (pc \in {"addStylelintPackages", "addStylelintConfigForProject",
                "addPackageInstallTask", "done"}) =>
           SelectorPrefixes(tree[".eslintrc.json"].doc) = {DescriptorPrefix(treeStart)}
    /\ (/\ pc = "failed"
        /\ ~Named(schema)
        /\ DescriptorProjects(treeStart) = OneProject.e[2].v) =>
           error.err.kind # "NotFound" \/ error.err.path = "package.json"

\* C7: a second invocation with the same project name, after a first one
\* that succeeded, leaves package.json, the linter config and the
\* project's formatter and style-linter configs with the content the
\* first invocation left, in every state of the second invocation; what
\* repeats is the install task, added once per invocation.
C7_ReinvocationIdempotent ==
    (run = 2 /\ treeRun1.done /\ schema = treeRun1.project) =>
        /\ \A p \in DOMAIN treeRun1.tree : p \in DOMAIN tree /\ tree[p] = treeRun1.tree[p]
        /\ \A p \in DOMAIN tree \ DOMAIN treeRun1.tree :
               tree[p] = serializeJson(ExternalESLintConfig)
        /\ pc = "done" => tasks = 1
        /\ pc # "failed" \/ error.at = "externalSchematic"

C7_Witness ==
    /\ run = 2
    /\ pc = "done"
    /\ treeRun1.done
    /\ schema = treeRun1.project
    /\ tasks = 1
    /\ extCalls = 1
    /\ tree["package.json"] # treeStart["package.json"] \/ tree = treeStart
    /\ KeySet(DevDependencies(tree)) # RequestedNames

\* an error of a read, its path as the tree names it
AtPath(err) == Err(err.kind, NormalizePath(err.path))

\* C9 as claimed: every mandatory read fails with NotFound exactly when
\* the path does not exist and with ParseError carrying the path exactly
\* when the text is no JSON after comments are stripped, and yields the
\* document otherwise: the read of package.json by the package rules
\* included.
C9_EveryReadIsStoreRead ==
    /\ (pc = "failed" /\ error.at \in PackageRules) =>
           /\ error.err.kind \in ReadErrors => error.err = StoreRead(tree, "package.json")
           /\ StoreRead(tree, "package.json") # NoError =>
                  error.err = StoreRead(tree, "package.json")
    /\ (pc = "failed" /\ error.at \in ConfigRules) =>
           /\ error.err.kind \in ReadErrors => error.err = ConfigRead(tree, error.at)
           /\ ConfigRead(tree, error.at) # NoError => error.err = ConfigRead(tree, error.at)

\* C9, amended: the reads of the workspace descriptor, of angular.json and
\* of an existing config document fail with NotFound exactly when the path
\* does not exist, with ParseError carrying the path exactly when the text
\* is no JSON after comments are stripped, and yield the document
\* otherwise; the read of package.json fails with NotFound exactly when it
\* does not exist and with the SyntaxError of JSON.parse, which carries no
\* path, exactly when the text is not strict JSON, comments included.  A
\* failing read ends the invocation and the rule it fails in leaves the
\* tree as it was.
C9_ReadsOfTheRules ==
    /\ (pc = "failed" /\ error.at = "configureLinters" /\ ~Named(schema)) =>
           /\ error.err.kind \in ReadErrors =>
                  AtPath(error.err) = StoreRead(tree, DescriptorFile(tree))
           /\ StoreRead(tree, DescriptorFile(tree)) # NoError =>
                  AtPath(error.err) = StoreRead(tree, DescriptorFile(tree))
    /\ (pc = "failed" /\ error.at \in PackageRules) =>
           /\ error.err.kind \in ReadErrors => error.err = StrictRead(tree)
           /\ StrictRead(tree) # NoError => error.err = StrictRead(tree)
    /\ (pc = "failed" /\ error.at \in ConfigRules) =>
           /\ error.err.kind \in ReadErrors => error.err = ConfigRead(tree, error.at)
           /\ ConfigRead(tree, error.at) # NoError => error.err = ConfigRead(tree, error.at)
    /\ \A rule \in Range(log) :
           /\ rule \in PackageRules => StrictRead(tree) = NoError
           /\ rule \in ConfigRules => ConfigRead(tree, rule) = NoError
    /\ (run >= 1 /\ ~Named(schema) /\ pc # "failed") =>
           StoreRead(tree, DescriptorFile(tree)) = NoError
    /\ (pc = "failed" /\ error.err.kind \in ReadErrors) =>
           /\ \A p \in DOMAIN written : p \in DOMAIN tree /\ tree[p] = written[p]
           /\ \A p \in DOMAIN tree \ DOMAIN written :
                  p \in DOMAIN treeStart /\ tree[p] = treeStart[p]

\* a descriptor with comments is read, a config document that is no JSON
\* ends the invocation with the ParseError of its path
C9_Witness ==
    /\ pc = "failed"
    /\ error.at = "addStylelintConfigForProject"
    /\ error.err = Err("ParseError", "apps/web/.stylelintrc.json")
    /\ tree["angular.json"].fmt = "jsonc"
    /\ ~Named(schema)

----------------------------------------------------------------------------
(* Properties of updateJsonInTree. *)

\* the document of path before the call, the empty object without one
Existing(path) ==
    IF path \in DOMAIN treeStart THEN treeStart[path].doc ELSE Obj(<<>>)

\* the top-level keys a callback sets
TouchedKeys(callback) ==
    CASE callback.fn = "assign" -> {callback.arg.k}
      [] callback.fn = "identity" -> {}
      [] OTHER -> KeySet(ApplyCallback(callback, Obj(<<>>)))

\* C10 as claimed: a path that does not exist is created with the
\* serialized callback result of the empty object, and at a path that
\* exists every top-level key of the document which the callback does not
\* set is there with its value after the call, the callbacks of the three
\* config rules included.
C10_WritePreservesUntouchedKeys ==
    (output.called /\ output.err = NoError) =>
        /\ input[1] \notin DOMAIN treeStart =>
               tree[input[1]] = serializeJson(ApplyCallback(input[2], Obj(<<>>)))
        /\ \A k \in KeySet(Existing(input[1])) \ TouchedKeys(input[2]) :
               /\ HasOwn(tree[input[1]].doc, k)
               /\ GetProp(tree[input[1]].doc, k) = GetProp(Existing(input[1]), k)

\* C10, amended: a path that does not exist is created with the
\* serialized callback result of the empty object; a path that exists is
\* overwritten with the serialized callback result of the parsed document,
\* or the read's error is raised and the tree left as it was; no other
\* path changes.  A top-level key of the existing document is kept when
\* the callback returns the document it was given; the callbacks of the
\* three config rules return a newly built config whatever they are given,
\* so an existing config document is replaced by the builder's output and
\* every top-level key the builder does not produce is lost.
C10_WriteAppliesCallback ==
    output.called =>
        /\ output.err = StoreRead(treeStart, input[1])
               \/ (input[1] \notin DOMAIN treeStart /\ output.err = NoError)
        /\ output.err # NoError => tree = treeStart
        /\ output.err = NoError =>
               /\ DOMAIN tree = DOMAIN treeStart \cup {input[1]}
               /\ \A p \in DOMAIN tree \ {input[1]} : tree[p] = treeStart[p]
               /\ tree[input[1]]
                      = serializeJson(ApplyCallback(input[2], Existing(input[1])))
               /\ input[2] \in Builders =>
                      tree[input[1]].doc = ApplyCallback(input[2], Obj(<<>>))
               /\ input[2] \notin Builders =>
                      \A k \in KeySet(Existing(input[1])) \ TouchedKeys(input[2]) :
                          GetProp(tree[input[1]].doc, k) = GetProp(Existing(input[1]), k)

\* the prettier builder replaces a config document that had keys of its own
C10_Witness ==
    /\ output.called
    /\ output.err = NoError
    /\ input = <<"apps/web/.prettierrc.json", Callback("createPrettierConfig", Undefined)>>
    /\ input[1] \in DOMAIN treeStart
    /\ treeStart[input[1]].doc = OwnConfig
    /\ treeStart[input[1]].fmt = "jsonc"
    /\ ~HasOwn(tree[input[1]].doc, "rules")
    /\ tree[input[1]].fmt = "json"
====
